---- MODULE Spec2Model ----
(***************************************************************************)
(* A model of VersionInferrer's analysis core:                             *)
(*   - analysis/resource.py : Resource (cache-aware retrieval, accessors,  *)
(*     serialize, persist)                                                 *)
(*   - analysis/guess.py    : Guess (evidence sets, strength)              *)
(*                                                                         *)
(* Python attributes that may be absent (hasattr) are modelled as options: *)
(* <<>> is "attribute not set", <<v>> is "attribute set to v"; the         *)
(* boolean _success is "unset", "true" or "false".                         *)
(***************************************************************************)
EXTENDS Integers, Sequences, FiniteSets, TLC

\* ---------------------------------------------------------------- bounds
\* Resource objects of the specification Spec (each with or without a cache).
NumResources == 1
\* Resource objects of the specification SharedSpec (all sharing one cache).
NumSharing == 2
\* requests.get calls followed per Resource object.
MaxRequests == 2
\* Asset objects a Guess can be given as evidence.
NumAssets == 2

\* ------------------------------------------------------- input universes
\* URLs, as urlparse splits them.
Urls ==
    { [scheme |-> "http", netloc |-> "a", path |-> ""],
      [scheme |-> "http", netloc |-> "a", path |-> "/x"] }

StatusCodes == {200, 404}

Contents == {"A", "B"}

\* The requests.Response objects the network can return: what the accessors
\* read from them. Two with status 200 and one without; any two differ in
\* two fields.
Responses ==
    { resp \in [status_code : StatusCodes, content : Contents, url : Urls] :
        \/ resp.status_code = 200 /\ (resp.content = "A") = (resp.url.path = "")
        \/ resp.status_code = 404 /\ resp.content = "B" /\ resp.url.path = "" }

\* What requests.get does: <<>> is a raised HTTPError / RequestException /
\* UnicodeError, <<resp>> a completed call returning resp.
NetAnswers == {<<>>} \cup { <<resp>> : resp \in Responses }

VARIABLES
    res,        \* res[r]: the Resource object r: url, cache (shared dict or None), _response, _success
    cache,      \* the shared dict: cache[u] = <<>> (no key u) or <<resp>>
    files,      \* the file system: the files written, each a path and its bytes
    netCount,   \* netCount[r]: requests.get calls issued by Resource r so far
    last,       \* the last call: its operation, Resource, network activity and outcome
    settings,   \* the settings module: POSITIVE_MATCH_WEIGHT, NEGATIVE_MATCH_WEIGHT
    heap,       \* the Python set objects a Guess can refer to: heap[id] = the set's members
    guess,      \* the Guess object: software_version, and the ids of its two sets
    glast,      \* the last call on the Guess: its operation, its Asset, and what it returned
    naming,     \* a URL path and the file name derived from it
    extraction, \* the signatures, the EvidenceStore, the document given to the generator-tag strategy, and the queries the last call made to them
    ordering    \* two Guess objects and the outcome of comparing them

resourceVars == <<res, cache, files, netCount, last, extraction>>

guessVars == <<settings, heap, guess, glast>>

\* The inputs and outputs of the functions checked on their own.
pureVars == <<ordering, naming>>

vars == <<res, cache, files, netCount, last, settings, heap, guess, glast, ordering, naming, extraction>>

\* ------------------------------------------------------------ Resource
\* Resource.__init__: url and cache stored, no _response, no _success.
NewResource(url, hasCache) ==
    [url |-> url, hasCache |-> hasCache, response |-> <<>>, success |-> "unset"]

\* A variant of retrieved that looks at _response alone.
retrieved_ResponseOnly(o) == o.response # <<>>

\* Resource.retrieved: hasattr(_response) or hasattr(_success).
retrieved(o) == o.response # <<>> \/ o.success # "unset"

\* A variant of the cache test that never finds the URL.
CacheHit_Never(o, c) == o.hasCache /\ c[o.url] # <<>> /\ c[o.url] = <<>>

\* retrieve(): the cache test of its first line.
CacheHit(o, c) == o.hasCache /\ c[o.url] # <<>>

\* A variant of the cache-hit branch that adopts the response and leaves
\* _success unassigned.
OnCacheHit_NoSuccess(o, c) ==
    [res   |-> [o EXCEPT !.response = c[o.url]],
     cache |-> c, net |-> "none", exc |-> "none"]

\* retrieve(): the cache-hit branch.
OnCacheHit(o, c) ==
    [res   |-> [o EXCEPT !.success = "true", !.response = c[o.url]],
     cache |-> c, net |-> "none", exc |-> "none"]

\* A variant of the fault branch that lets the exception through.
OnFault_Propagates(o, c) ==
    [res |-> o, cache |-> c, net |-> "fault", exc |-> "RequestException"]

\* retrieve(): requests.get raised one of the caught exceptions.
OnFault(o, c) ==
    [res   |-> [o EXCEPT !.success = "false"],
     cache |-> c, net |-> "fault", exc |-> "none"]

\* A variant of the completed branch that caches a response only when its
\* status is 200.
OnCompleted_CachesOnly200(o, c, resp) ==
    IF o.hasCache
    THEN [res   |-> [o EXCEPT !.response = <<resp>>, !.success = "true"],
          cache |-> IF resp.status_code = 200 THEN [c EXCEPT ![o.url] = <<resp>>] ELSE c,
          net   |-> "completed", exc |-> "none"]
    ELSE [res   |-> [o EXCEPT !.response = <<resp>>],
          cache |-> c, net |-> "completed", exc |-> "TypeError"]

\* retrieve(): requests.get returned resp. _response is assigned first; the
\* else-branch then subscripts self.cache, which raises TypeError when the
\* cache is None, before _success is assigned.
OnCompleted(o, c, resp) ==
    IF o.hasCache
    THEN [res   |-> [o EXCEPT !.response = <<resp>>, !.success = "true"],
          cache |-> [c EXCEPT ![o.url] = <<resp>>],
          net   |-> "completed", exc |-> "none"]
    ELSE [res   |-> [o EXCEPT !.response = <<resp>>],
          cache |-> c, net |-> "completed", exc |-> "TypeError"]

\* Resource.retrieve, given what the network answers.
retrieve(o, c, ans) ==
    IF CacheHit(o, c) THEN OnCacheHit(o, c)
    ELSE IF ans = <<>> THEN OnFault(o, c)
    ELSE OnCompleted(o, c, ans[1])

\* "if not self.retrieved: self.retrieve()", the first lines of every accessor.
EnsureRetrieved(o, c, ans) ==
    IF retrieved(o)
    THEN [res |-> o, cache |-> c, net |-> "none", exc |-> "none"]
    ELSE retrieve(o, c, ans)

Return(v) == [kind |-> "return", exc |-> "none", val |-> <<v>>]

Raise(e) == [kind |-> "raise", exc |-> e, val |-> <<>>]

\* "if not self._success: raise RetrievalFailure; return self._response.<field>"
\* on a Resource object o; reading an absent _success raises AttributeError.
ReadField(o, field) ==
    IF o.success = "unset" THEN Raise("AttributeError")
    ELSE IF o.success = "false" THEN Raise("RetrievalFailure")
    ELSE Return(o.response[1][field])

\* "return self._success and self.status_code == 200"
ReadSuccess(o) ==
    IF o.success = "unset" THEN Raise("AttributeError")
    ELSE IF o.success = "false" THEN Return(FALSE)
    ELSE LET s == ReadField(o, "status_code") IN
         IF s.kind = "raise" THEN s ELSE Return(s.val[1] = 200)

\* A call: the state it leaves and its outcome.
Call(e, outcome) ==
    [res |-> e.res, cache |-> e.cache, net |-> e.net,
     result |-> IF e.exc # "none" THEN Raise(e.exc) ELSE outcome]

\* The properties content, final_url and status_code.
Getter(o, c, ans, field) ==
    LET e == EnsureRetrieved(o, c, ans) IN Call(e, ReadField(e.res, field))

\* The property success.
success(o, c, ans) ==
    LET e == EnsureRetrieved(o, c, ans) IN Call(e, ReadSuccess(e.res))

\* The property webroot_path.
webroot_path(o) == o.url.path

\* Resource.serialize: success is evaluated first (and may retrieve); the
\* later reads find the Resource retrieved.
serialize(o, c, ans) ==
    LET s == success(o, c, ans) IN
    IF s.result.kind = "raise" THEN s
    ELSE IF ~s.result.val[1]
    THEN [s EXCEPT !.result =
            Return([url |-> o.url, webroot_path |-> webroot_path(o),
                    success |-> ReadSuccess(s.res).val[1]])]
    ELSE [s EXCEPT !.result =
            Return([url |-> o.url, webroot_path |-> webroot_path(o),
                    status_code |-> ReadField(s.res, "status_code").val[1],
                    success |-> ReadSuccess(s.res).val[1]])]

\* persist(): "if len(path_name) > 200"
NameLimit == 200

\* persist(): path_name[:50] and path_name[-50:]
KeptChars == 50

\* The characters of a hexadecimal digest, and the number of them in one.
HexDigits == <<"0", "1", "2", "3", "4", "5", "6", "7", "8", "9", "a", "b", "c", "d", "e", "f">>

HashLength == 8

\* The characters of URL paths: those clean_path_name keeps, and others.
SafeChars == {"a", "b", "c", "d", "e", "f", "g", "x", "_", "."}

PathChars == <<"a", "b", "c", "d", "e", "f", "g", "x", "_", ".", "/", "~">>

CharCode(ch) == CHOOSE i \in 1..Len(PathChars) : PathChars[i] = ch

\* The text of the path component of each URL of Urls.
PathText(path) == IF path = "" THEN <<>> ELSE <<"/", "x">>

\* clean_path_name(name): the characters of the safe set, in order.
IsSafe(ch) == ch \in SafeChars

clean_path_name(name) == SelectSeq(name, IsSafe)

\* calculate_checksum(path_name.encode()).hex(): HashLength digits, each
\* depending on every character of the name and its position.
RECURSIVE DigestSum(_, _, _, _)
DigestSum(name, lo, hi, j) ==
    IF lo > hi THEN j
    ELSE IF lo = hi THEN (CharCode(name[lo]) * (lo + j)) % 16
    ELSE LET mid == (lo + hi) \div 2 IN
         (DigestSum(name, lo, mid, j) + DigestSum(name, mid + 1, hi, j)) % 16

calculate_checksum_hex(name) ==
    [j \in 1..HashLength |-> HexDigits[DigestSum(name, 1, Len(name), j) + 1]]

\* A variant of the length test that also compresses a name of 200 characters.
TooLong_AtLimit(path_name) == Len(path_name) >= NameLimit

\* persist(): "if len(path_name) > 200"
TooLong(path_name) == Len(path_name) > NameLimit

\* persist(): '...'.join((path_name[:50], <checksum>, path_name[-50:]))
compress(path_name) ==
    SubSeq(path_name, 1, KeptChars)
      \o <<".", ".", ".">> \o calculate_checksum_hex(path_name) \o <<".", ".", ".">>
      \o SubSeq(path_name, Len(path_name) - KeptChars + 1, Len(path_name))

\* A variant of the naming of an empty path that uses "index".
derive_name_Index(path) ==
    LET cleaned   == IF path = <<>> THEN <<>> ELSE clean_path_name(Tail(path))
        path_name == IF cleaned = <<>>
                     THEN <<"i", "n", "d", "e", "x">> ELSE cleaned
    IN IF TooLong(path_name) THEN compress(path_name) ELSE path_name

\* persist(): the file name for URL path text path:
\* clean_path_name(parsed_url.path[1:]) or '__index__', compressed when long.
derive_name(path) ==
    LET cleaned   == IF path = <<>> THEN <<>> ELSE clean_path_name(Tail(path))
        path_name == IF cleaned = <<>>
                     THEN <<"_", "_", "i", "n", "d", "e", "x", "_", "_">> ELSE cleaned
    IN IF TooLong(path_name) THEN compress(path_name) ELSE path_name

\* persist(): os.path.join(base_path, '_'.join((scheme, netloc)), path_name)
file_path(base_path, url) ==
    [base |-> base_path, dir |-> <<url.scheme, "_", url.netloc>>,
     name |-> derive_name(PathText(url.path))]

\* Resource.persist(base_path): the file it writes (<<>>: none) and how it ends.
\* "not self.retrieved or not self.success" returns before any retrieval.
persist(o, base_path) ==
    IF ~retrieved(o) THEN [write |-> <<>>, result |-> Return("skipped")]
    ELSE LET s == ReadSuccess(o) IN
         IF s.kind = "raise" THEN [write |-> <<>>, result |-> s]
         ELSE IF ~s.val[1] THEN [write |-> <<>>, result |-> Return("skipped")]
         ELSE [write  |-> <<[path  |-> file_path(base_path, o.url),
                             bytes |-> ReadField(o, "content").val[1]]>>,
               result |-> Return("written")]

\* ------------------------------------------------------------ Extractor
\* Text is a sequence of one-character strings.
Whitespace == {" ", "\t"}

\* str.lower(), on the letters the inputs use.
LowerChar(ch) ==
    CASE ch = "W" -> "w"
      [] ch = "R" -> "r"
      [] ch = "C" -> "c"
      [] OTHER -> ch

lower(s) == [i \in 1..Len(s) |-> LowerChar(s[i])]

\* str.strip(): leading and trailing whitespace removed.
RECURSIVE lstrip(_)
lstrip(s) ==
    IF s # <<>> /\ Head(s) \in Whitespace THEN lstrip(Tail(s)) ELSE s

RECURSIVE rstrip(_)
rstrip(s) ==
    IF s # <<>> /\ s[Len(s)] \in Whitespace THEN rstrip(SubSeq(s, 1, Len(s) - 1)) ELSE s

strip(s) == rstrip(lstrip(s))

\* str.split(): the maximal runs of non-whitespace characters, in order.
RECURSIVE SplitFrom(_, _)
SplitFrom(s, word) ==
    IF s = <<>> THEN (IF word = <<>> THEN <<>> ELSE <<word>>)
    ELSE IF Head(s) \in Whitespace
         THEN (IF word = <<>> THEN <<>> ELSE <<word>>) \o SplitFrom(Tail(s), <<>>)
         ELSE SplitFrom(Tail(s), Append(word, Head(s)))

split(s) == SplitFrom(s, <<>>)

\* "a in b" on str: a occurs in b as a contiguous run.
Contains(b, a) ==
    \E i \in 0..(Len(b) - Len(a)) : SubSeq(b, i + 1, i + Len(a)) = a

\* The <meta> tags of a parsed document: name attribute, and content
\* attribute (<<>>: the tag has none). Markup[c] is what parsing content c gives.
Meta(name, content) == [name |-> name, content |-> content]

Markup ==
    [A |-> << Meta("description", << <<"W">> >>),
              Meta("generator", << <<"W", " ", "5", ".", "4">> >>) >>,
     B |-> << Meta("description", << <<"W", " ", "5", ".", "4">> >>) >>,
     C |-> << Meta("generator", << <<"W", " ", "5", ".", "4">> >>),
              Meta("generator", << <<"W", " ", "5", ".", "4">> >>) >>,
     D |-> << Meta("generator", <<>>) >>,
     E |-> << Meta("generator", << <<>> >>) >>,
     F |-> << Meta("generator", << <<" ", "\t", " ">> >>) >>,
     G |-> << Meta("generator", << <<"W">> >>) >>,
     H |-> << Meta("generator", << <<"W", " ", "9", ".", "9">> >>) >>,
     I |-> << Meta("generator", << <<" ", "w", "\t", " ", "r", "C", " ", "5", ".", "5">> >>) >>,
     J |-> << Meta("generator", << <<"X", " ", "5", ".", "4">> >>) >>,
     K |-> << Meta("generator", << <<"W", " ", "5", ".">> >>) >>]

\* BeautifulSoup(content, HTML_PARSER)
Parse(content) == Markup[content]

\* parsed.find_all('meta', {'name': 'generator'})
RECURSIVE find_all_generator(_)
find_all_generator(parsed) ==
    IF parsed = <<>> THEN <<>>
    ELSE (IF Head(parsed).name = "generator" THEN <<Head(parsed)>> ELSE <<>>)
           \o find_all_generator(Tail(parsed))

\* The EvidenceStore: SoftwarePackage names, and SoftwareVersion objects
\* (package, name, indexed).
PackageNames == { <<"W">>, <<"w">>, <<"J">> }

VersionUniverse ==
    { [package |-> <<"W">>, name |-> <<"5", ".", "4">>],
      [package |-> <<"W">>, name |-> <<"5", ".", "5">>],
      [package |-> <<"W">>, name |-> <<" ", "R", "c", "1", " ">>],
      [package |-> <<"w">>, name |-> <<"5", ".", "5">>],
      [package |-> <<"J">>, name |-> <<"5", ".", "4">>] }

\* A store: the versions it knows and, of these, the indexed ones.
Backends ==
    { b \in [versions : SUBSET VersionUniverse, indexed : SUBSET VersionUniverse] :
        b.indexed \subseteq b.versions }

\* BACKEND.retrieve_packages_by_name(name): the packages of that name,
\* whatever the case of its letters.
retrieve_packages_by_name(b, name) ==
    { p \in PackageNames : lower(p) = lower(name) }

\* BACKEND.retrieve_versions(software_package, indexed_only)
retrieve_versions(b, software_package, indexed_only) ==
    { v \in (IF indexed_only THEN b.indexed ELSE b.versions) :
        v.package = software_package }

\* The signatures: the package each belongs to and what it looks for in a
\* response: "any" is found in every response, "generator" in a document
\* with a generator tag, "none" in no response of the model.
Patterns == {"any", "generator", "none"}

SignedPackages == { <<"W">>, <<"J">> }

WappalyzerApps ==
    { { [software_package |-> p, pattern |-> f[p]] : p \in SignedPackages } :
        f \in [SignedPackages -> Patterns] }

\* app.matches(response)
matches(app, response) ==
    CASE app.pattern = "any" -> TRUE
      [] app.pattern = "generator" -> find_all_generator(Parse(response.content)) # <<>>
      [] OTHER -> FALSE

\* The calls a strategy made to the store and to the signatures.
StoreQuery(fn, arg) == [to |-> "BACKEND", fn |-> fn, arg |-> arg]

\* A variant of the narrowing that keeps an empty narrowed set.
NarrowVersions_NoFallback(versions, components) ==
    IF Len(components) > 1
    THEN versions \ { version \in versions :
                         ~Contains(strip(lower(version.name)), strip(lower(components[2]))) }
    ELSE versions

\* _extract_generator_tag, the body of "for match in matches": the versions
\* that do not contain components[1] are removed from a copy, and the copy is
\* given up for the whole set when nothing is left of it.
NarrowVersions(versions, components) ==
    IF Len(components) > 1
    THEN LET matching_versions ==
                 versions \ { version \in versions :
                     ~Contains(strip(lower(version.name)), strip(lower(components[2]))) }
         IN IF matching_versions = {} THEN versions ELSE matching_versions
    ELSE versions

\* A variant of the tag count test that rejects only the document without a tag.
Unreliable_NoneOnly(generator_tags) == Len(generator_tags) < 1

\* _extract_generator_tag: "if len(generator_tags) != 1"
Unreliable(generator_tags) == Len(generator_tags) # 1

\* Resource._extract_generator_tag(parsed): the result and the calls made.
extract_generator_tag(parsed, b) ==
    LET generator_tags == find_all_generator(parsed)
        nothing == [result |-> {}, queries |-> {}]
    IN
    IF Unreliable(generator_tags) THEN nothing
    ELSE LET generator_tag == generator_tags[1].content IN
         IF generator_tag = <<>> \/ generator_tag[1] = <<>> THEN nothing
         ELSE LET components == split(generator_tag[1]) IN
              IF components = <<>> THEN nothing
              ELSE LET found == retrieve_packages_by_name(b, components[1]) IN
                   [result  |-> UNION { NarrowVersions(retrieve_versions(b, match, TRUE),
                                                       components) : match \in found },
                    queries |-> {StoreQuery("retrieve_packages_by_name", components[1])}
                                  \cup { StoreQuery("retrieve_versions", match) :
                                           match \in found }]

\* A variant of the signature strategy that asks for the versions not indexed too.
extract_wappalyzer_information_AllVersions(response, apps, b) ==
    LET app_matches == { app \in apps : matches(app, response) } IN
    [result  |-> UNION { retrieve_versions(b, app.software_package, FALSE) :
                           app \in app_matches },
     queries |-> { [to |-> "wappalyzer", fn |-> "matches", arg |-> app.software_package] :
                     app \in apps }
                   \cup { StoreQuery("retrieve_versions", app.software_package) :
                            app \in app_matches }]

\* Resource._extract_wappalyzer_information, on self._response.
extract_wappalyzer_information(response, apps, b) ==
    LET app_matches == { app \in apps : matches(app, response) } IN
    [result  |-> UNION { retrieve_versions(b, app.software_package, TRUE) :
                           app \in app_matches },
     queries |-> { [to |-> "wappalyzer", fn |-> "matches", arg |-> app.software_package] :
                     app \in apps }
                   \cup { StoreQuery("retrieve_versions", app.software_package) :
                            app \in app_matches }]

\* Resource.extract_information: _parse reads the property content, which
\* retrieves first and may raise; then the two strategies.
extract_information(o, c, ans, apps, b) ==
    LET read == Getter(o, c, ans, "content") IN
    IF read.result.kind = "raise"
    THEN [call |-> read, queries |-> {}]
    ELSE LET parsed == Parse(read.result.val[1])
             tag    == extract_generator_tag(parsed, b)
             wap    == extract_wappalyzer_information(read.res.response[1], apps, b)
         IN [call    |-> [read EXCEPT !.result = Return(tag.result \cup wap.result)],
             queries |-> tag.queries \cup wap.queries]

\* -------------------------------------------------------- file names
\* The longest URL path whose name is derived, and the number of ways its
\* characters are chosen.
MaxPathLen == 210

NumPatterns == 3

\* A URL path of n characters after the leading "/"; every third way of
\* choosing them puts a character outside the safe set at each 40th place.
PathOf(n, k) ==
    <<"/">> \o [i \in 1..n |->
                 IF k % 3 = 0 /\ i % 40 = 0 THEN "~"
                 ELSE PathChars[((i * k + (i \div 7)) % 10) + 1]]

PathInputs == {<<>>} \cup { PathOf(n, k) : n \in 0..MaxPathLen, k \in 1..NumPatterns }

\* No path given.
NoName == [path |-> <<>>, out |-> <<>>]

\* persist(), lines 79-86, on the URL path naming.path.
DeriveName ==
    /\ naming.out = <<>>
    /\ naming' = [naming EXCEPT !.out = <<derive_name(naming.path)>>]
    /\ UNCHANGED <<resourceVars, guessVars, ordering>>

\* --------------------------------------------------------------- Guess
\* The Asset objects, and the idf_weight attribute of each: Asset a weighs
\* a - 1, so that one Asset weighs nothing and the others differ.
Assets == 1..NumAssets

idf_weight(a) == a - 1

\* The values settings may give the two match weights.
MatchWeights == {-1, 1, 2}

\* The SoftwareVersion objects.
Versions == {"5.4", "5.5"}

\* The set objects: P and N are the caller's (constructor arguments), ownPos
\* and ownNeg the two that __init__ creates with set().
SetIds == {"P", "N", "ownPos", "ownNeg"}

\* A constructor argument: <<>> is None, <<id>> the set object id.
PositiveArgs == {<<>>, <<"P">>}

NegativeArgs == {<<>>, <<"N">>, <<"P">>}

\* "if positive_matches: self.positive_matches = positive_matches": an argument
\* that is None or an empty set is falsy and the fresh set() is kept.
Truthy(h, arg) == arg # <<>> /\ h[arg[1]] # {}

\* Guess.__init__: the attributes refer to the argument objects, not to copies.
NewGuess(h, software_version, positive_matches, negative_matches) ==
    [software_version |-> software_version,
     positive_matches |-> IF Truthy(h, positive_matches)
                          THEN positive_matches[1] ELSE "ownPos",
     negative_matches |-> IF Truthy(h, negative_matches)
                          THEN negative_matches[1] ELSE "ownNeg"]

\* sum(asset.idf_weight for asset in matches)
RECURSIVE SumWeights(_)
SumWeights(S) ==
    IF S = {} THEN 0
    ELSE LET a == CHOOSE x \in S : TRUE IN idf_weight(a) + SumWeights(S \ {a})

\* Guess.positive_strength and Guess.negative_strength of Guess g on heap h.
positive_strength(h, g) == SumWeights(h[g.positive_matches])

negative_strength(h, g) == SumWeights(h[g.negative_matches])

\* A variant of strength with the two weights exchanged.
strength_WeightsExchanged(h, g) ==
    settings.NEGATIVE_MATCH_WEIGHT * positive_strength(h, g)
      + settings.POSITIVE_MATCH_WEIGHT * negative_strength(h, g)

\* Guess.strength.
strength(h, g) ==
    settings.POSITIVE_MATCH_WEIGHT * positive_strength(h, g)
      + settings.NEGATIVE_MATCH_WEIGHT * negative_strength(h, g)

\* A Guess just constructed from the caller's sets, under some settings.
GuessInit ==
    /\ settings \in [POSITIVE_MATCH_WEIGHT : MatchWeights,
                     NEGATIVE_MATCH_WEIGHT : MatchWeights]
    /\ heap \in { h \in [SetIds -> SUBSET Assets] : h["ownPos"] = {} /\ h["ownNeg"] = {} }
    /\ \E v \in Versions, p \in PositiveArgs, n \in NegativeArgs :
           guess = NewGuess(heap, v, p, n)
    /\ glast = [op |-> "init", asset |-> 0, result |-> <<>>]
    /\ ordering = [a |-> <<>>, b |-> <<>>, cmp |-> <<>>]
    /\ naming = NoName

\* The Guess of the specifications that are about Resources: Guess(v).
GuessIdle ==
    /\ ordering = [a |-> <<>>, b |-> <<>>, cmp |-> <<>>]
    /\ naming = NoName
    /\ settings = [POSITIVE_MATCH_WEIGHT |-> 1, NEGATIVE_MATCH_WEIGHT |-> -1]
    /\ heap = [i \in SetIds |-> {}]
    /\ guess = NewGuess(heap, "5.4", <<>>, <<>>)
    /\ glast = [op |-> "init", asset |-> 0, result |-> <<>>]

\* guess.positive_matches.add(a)
AddPositive(a) ==
    /\ heap' = [heap EXCEPT ![guess.positive_matches] = @ \cup {a}]
    /\ glast' = [op |-> "add_positive", asset |-> a, result |-> <<>>]
    /\ UNCHANGED <<settings, guess>>
    /\ UNCHANGED <<resourceVars, pureVars>>

\* guess.negative_matches.add(a)
AddNegative(a) ==
    /\ heap' = [heap EXCEPT ![guess.negative_matches] = @ \cup {a}]
    /\ glast' = [op |-> "add_negative", asset |-> a, result |-> <<>>]
    /\ UNCHANGED <<settings, guess>>
    /\ UNCHANGED <<resourceVars, pureVars>>

\* Guess.serialize: the version and the two set objects themselves.
Guess_serialize(h, g) ==
    [software_version |-> g.software_version,
     positive_matches |-> g.positive_matches,
     negative_matches |-> g.negative_matches]

\* A variant of debug_serialize that counts the positive set twice.
Guess_debug_serialize_PositiveTwice(h, g) ==
    [software_version  |-> g.software_version,
     positive_matches  |-> Cardinality(h[g.positive_matches]),
     positive_strength |-> positive_strength(h, g),
     negative_matches  |-> Cardinality(h[g.positive_matches]),
     negative_strength |-> negative_strength(h, g)]

\* Guess.debug_serialize: the version, and len() and strength of each set.
Guess_debug_serialize(h, g) ==
    [software_version  |-> g.software_version,
     positive_matches  |-> Cardinality(h[g.positive_matches]),
     positive_strength |-> positive_strength(h, g),
     negative_matches  |-> Cardinality(h[g.negative_matches]),
     negative_strength |-> negative_strength(h, g)]

\* guess.serialize()
SerializeGuess ==
    /\ glast' = [op |-> "serialize", asset |-> 0,
                 result |-> <<Guess_serialize(heap, guess)>>]
    /\ UNCHANGED <<settings, heap, guess>>
    /\ UNCHANGED <<resourceVars, pureVars>>

\* guess.debug_serialize()
DebugSerializeGuess ==
    /\ glast' = [op |-> "debug_serialize", asset |-> 0,
                 result |-> <<Guess_debug_serialize(heap, guess)>>]
    /\ UNCHANGED <<settings, heap, guess>>
    /\ UNCHANGED <<resourceVars, pureVars>>

GuessNext ==
    \/ \E a \in Assets : AddPositive(a)
    \/ \E a \in Assets : AddNegative(a)
    \/ SerializeGuess
    \/ DebugSerializeGuess

\* ---------------------------------------------------- Guess comparison
\* A Guess object with the set objects it refers to.
GuessObjects ==
    { [heap |-> h, guess |-> NewGuess(h, v, <<"P">>, <<"N">>)] :
        h \in { k \in [SetIds -> SUBSET Assets] : k["ownPos"] = {} /\ k["ownNeg"] = {} },
        v \in Versions }

StrengthOf(x) == strength(x.heap, x.guess)

\* A variant of __lt__ that compares the positive strengths.
Guess_lt_PositiveOnly(x, y) ==
    positive_strength(x.heap, x.guess) < positive_strength(y.heap, y.guess)

\* Guess.__lt__, __le__, __eq__, __ge__, __gt__
Guess_lt(x, y) == StrengthOf(x) < StrengthOf(y)

Guess_le(x, y) == StrengthOf(x) <= StrengthOf(y)

Guess_eq(x, y) == StrengthOf(x) = StrengthOf(y)

Guess_ge(x, y) == StrengthOf(x) >= StrengthOf(y)

Guess_gt(x, y) == StrengthOf(x) > StrengthOf(y)

\* Two Guess objects, under some settings, not yet compared.
OrderInit ==
    /\ settings \in [POSITIVE_MATCH_WEIGHT : MatchWeights,
                     NEGATIVE_MATCH_WEIGHT : MatchWeights]
    /\ heap = [i \in SetIds |-> {}]
    /\ guess = NewGuess(heap, "5.4", <<>>, <<>>)
    /\ glast = [op |-> "init", asset |-> 0, result |-> <<>>]
    /\ \E x \in GuessObjects, y \in GuessObjects :
           ordering = [a |-> <<x>>, b |-> <<y>>, cmp |-> <<>>]
    /\ naming = NoName

\* a < b, a <= b, a == b, a >= b, a > b
Compare ==
    /\ ordering.cmp = <<>>
    /\ LET x == ordering.a[1]
           y == ordering.b[1]
       IN ordering' = [ordering EXCEPT !.cmp =
              <<[lt |-> Guess_lt(x, y), le |-> Guess_le(x, y), eq |-> Guess_eq(x, y),
                 ge |-> Guess_ge(x, y), gt |-> Guess_gt(x, y)]>>]
    /\ UNCHANGED <<resourceVars, guessVars, naming>>

\* b < a, ..., b > a: the same comparison with the operands exchanged.
Exchange ==
    /\ ordering.cmp # <<>>
    /\ ordering' = [a |-> ordering.b, b |-> ordering.a, cmp |-> <<>>]
    /\ UNCHANGED <<resourceVars, guessVars, naming>>

OrderNext == Compare \/ Exchange

\* ---------------------------------------------------------------- Init
Absent == [u \in Urls |-> <<>>]

\* The caller's dict when the Resources are constructed: empty or pre-populated.
InitialCaches == [Urls -> {<<>>} \cup { <<resp>> : resp \in Responses }]

\* A store and signatures: every version known, one of them not indexed; a
\* signature of package W found in documents with a generator tag.
DefaultBackend ==
    [versions |-> VersionUniverse,
     indexed  |-> VersionUniverse \ {[package |-> <<"W">>, name |-> <<"5", ".", "5">>]}]

DefaultApps ==
    { [software_package |-> <<"W">>, pattern |-> "generator"],
      [software_package |-> <<"J">>, pattern |-> "none"] }

\* n Resource objects just constructed, their cache argument drawn from
\* withCache (TRUE: the shared dict, FALSE: None), the dict drawn from caches;
\* an empty store and no signatures.
InitOf(n, withCache, caches) ==
    /\ res \in [1..n -> { NewResource(u, h) : u \in Urls, h \in withCache }]
    /\ cache \in caches
    /\ files = {}
    /\ netCount = [r \in 1..n |-> 0]
    /\ last = [op |-> "init", r |-> 0, net |-> "none", result |-> Return("init")]
    /\ extraction = [apps |-> {}, backend |-> [versions |-> {}, indexed |-> {}],
                     parsed |-> <<>>, queries |-> {}]

Init == InitOf(NumResources, BOOLEAN, InitialCaches) /\ GuessIdle

SharedInit == InitOf(NumSharing, {TRUE}, {Absent}) /\ GuessIdle

Resources == DOMAIN res

\* ------------------------------------------------------------- actions
\* The network answers a call on Resource object o can meet: a call that
\* issues no request meets none, and one placeholder stands for all of them.
AnswersFor(o, retrieving) ==
    IF CacheHit(o, cache) \/ (~retrieving /\ retrieved(o)) THEN {<<>>} ELSE NetAnswers

\* The base_path argument of persist.
BasePath == "base_path"

\* extraction after a call that asks nothing of the store or the signatures.
NoQueries == [extraction EXCEPT !.queries = {}]

\* The state change of a call on Resource r that ended as c says.
Apply(r, op, c) ==
    /\ c.net # "none" => netCount[r] < MaxRequests
    /\ res' = [res EXCEPT ![r] = c.res]
    /\ cache' = c.cache
    /\ netCount' = [netCount EXCEPT ![r] = @ + (IF c.net = "none" THEN 0 ELSE 1)]
    /\ last' = [op |-> op, r |-> r, net |-> c.net, result |-> c.result]
    /\ UNCHANGED <<guessVars, pureVars>>

Retrieve(r, ans) ==
    /\ Apply(r, "retrieve", Call(retrieve(res[r], cache, ans), Return("None")))
    /\ UNCHANGED files
    /\ extraction' = NoQueries

Content(r, ans) ==
    /\ Apply(r, "content", Getter(res[r], cache, ans, "content"))
    /\ UNCHANGED files
    /\ extraction' = NoQueries

FinalUrl(r, ans) ==
    /\ Apply(r, "final_url", Getter(res[r], cache, ans, "url"))
    /\ UNCHANGED files
    /\ extraction' = NoQueries

StatusCode(r, ans) ==
    /\ Apply(r, "status_code", Getter(res[r], cache, ans, "status_code"))
    /\ UNCHANGED files
    /\ extraction' = NoQueries

Success(r, ans) ==
    /\ Apply(r, "success", success(res[r], cache, ans))
    /\ UNCHANGED files
    /\ extraction' = NoQueries

Serialize(r, ans) ==
    /\ Apply(r, "serialize", serialize(res[r], cache, ans))
    /\ UNCHANGED files
    /\ extraction' = NoQueries

Persist(r) ==
    LET p == persist(res[r], BasePath) IN
    /\ files' = IF p.write = <<>> THEN files
                ELSE { f \in files : f.path # p.write[1].path } \cup {p.write[1]}
    /\ last' = [op |-> "persist", r |-> r, net |-> "none", result |-> p.result]
    /\ extraction' = NoQueries
    /\ UNCHANGED <<res, cache, netCount>>
    /\ UNCHANGED <<guessVars, pureVars>>

\* resource.extract_information()
ExtractInformation(r, ans) ==
    LET x == extract_information(res[r], cache, ans, extraction.apps, extraction.backend) IN
    /\ Apply(r, "extract_information", x.call)
    /\ extraction' = [extraction EXCEPT !.queries = x.queries]
    /\ UNCHANGED files

\* Resource._extract_generator_tag(parsed), a static method, on the document
\* extraction.parsed.
ExtractGeneratorTag ==
    LET x == extract_generator_tag(extraction.parsed, extraction.backend) IN
    /\ last' = [op |-> "_extract_generator_tag", r |-> 0, net |-> "none",
                result |-> Return(x.result)]
    /\ extraction' = [extraction EXCEPT !.queries = x.queries]
    /\ UNCHANGED <<res, cache, netCount, files>>
    /\ UNCHANGED <<guessVars, pureVars>>

Next ==
    \/ \E r \in Resources : \E ans \in AnswersFor(res[r], TRUE) : Retrieve(r, ans)
    \/ \E r \in Resources : \E ans \in AnswersFor(res[r], FALSE) : Content(r, ans)
    \/ \E r \in Resources : \E ans \in AnswersFor(res[r], FALSE) : FinalUrl(r, ans)
    \/ \E r \in Resources : \E ans \in AnswersFor(res[r], FALSE) : StatusCode(r, ans)
    \/ \E r \in Resources : \E ans \in AnswersFor(res[r], FALSE) : Success(r, ans)
    \/ \E r \in Resources : \E ans \in AnswersFor(res[r], FALSE) : Serialize(r, ans)
    \/ \E r \in Resources : Persist(r)

Spec == Init /\ [][Next]_vars

\* Several Resources constructed with the same, initially empty, dict.
SharedSpec == SharedInit /\ [][Next]_vars

\* No Resource, and a Guess just constructed.
GuessSpecInit == InitOf(0, {TRUE}, {Absent}) /\ GuessInit

\* One Guess and the evidence added to it.
GuessSpec == GuessSpecInit /\ [][GuessNext]_vars

\* No Resource, and two Guess objects to compare.
OrderSpecInit == InitOf(0, {TRUE}, {Absent}) /\ OrderInit

\* The comparisons of two Guess objects.
OrderSpec == OrderSpecInit /\ [][OrderNext]_vars

\* The documents a response can carry.
Documents == DOMAIN Markup

\* One Resource just constructed with a dict that holds, under its URL, a
\* response with any of the documents; any store and any signatures.
ExtractSpecInit ==
    /\ \E u \in Urls, code \in StatusCodes, content \in Documents :
          /\ res = <<NewResource(u, TRUE)>>
          /\ cache = [Absent EXCEPT ![u] =
                         <<[status_code |-> code, content |-> content, url |-> u]>>]
          /\ extraction \in [apps : WappalyzerApps, backend : Backends,
                              parsed : {Parse(content)}, queries : {{}}]
    /\ files = {}
    /\ netCount = <<0>>
    /\ last = [op |-> "init", r |-> 0, net |-> "none", result |-> Return("init")]
    /\ GuessIdle

ExtractNext ==
    \/ \E r \in Resources : \E ans \in AnswersFor(res[r], FALSE) : ExtractInformation(r, ans)
    \/ ExtractGeneratorTag

\* The two extraction strategies on any document, store and signatures.
ExtractSpec == ExtractSpecInit /\ [][ExtractNext]_vars

FetchExtractNext ==
    \/ \E r \in Resources : \E ans \in AnswersFor(res[r], TRUE) : Retrieve(r, ans)
    \/ \E r \in Resources : \E ans \in AnswersFor(res[r], FALSE) : ExtractInformation(r, ans)

\* Resources as in Init, with a store and signatures.
FetchExtractInit ==
    /\ res \in [1..NumResources -> { NewResource(u, h) : u \in Urls, h \in BOOLEAN }]
    /\ cache \in InitialCaches
    /\ files = {}
    /\ netCount = [r \in 1..NumResources |-> 0]
    /\ last = [op |-> "init", r |-> 0, net |-> "none", result |-> Return("init")]
    /\ extraction = [apps |-> DefaultApps, backend |-> DefaultBackend,
                     parsed |-> <<>>, queries |-> {}]
    /\ GuessIdle

\* Retrieval and extraction on Resources with or without a cache, with the
\* network answering as it may.
FetchExtractSpec == FetchExtractInit /\ [][FetchExtractNext]_vars

\* No Resource, an unused Guess, and a URL path.
PathSpecInit ==
    /\ InitOf(0, {TRUE}, {Absent})
    /\ settings = [POSITIVE_MATCH_WEIGHT |-> 1, NEGATIVE_MATCH_WEIGHT |-> -1]
    /\ heap = [i \in SetIds |-> {}]
    /\ guess = NewGuess(heap, "5.4", <<>>, <<>>)
    /\ glast = [op |-> "init", asset |-> 0, result |-> <<>>]
    /\ ordering = [a |-> <<>>, b |-> <<>>, cmp |-> <<>>]
    /\ \E path \in PathInputs : naming = [path |-> path, out |-> <<>>]

\* The file name derived from any URL path.
PathSpec == PathSpecInit /\ [][DeriveName]_vars

\* ----------------------------------------------------- Resource claims
\* The response attribute each data accessor reads.
Fields == {"content", "url", "status_code"}

OpField(op) ==
    IF op = "content" THEN "content"
    ELSE IF op = "final_url" THEN "url" ELSE "status_code"

GetterOps == {"content", "final_url", "status_code"}

\* The step just taken was a call of op on Resource r.
Called(op, r) == last'.op = op /\ last'.r = r

\* C1: at most one retrieval attempt (network request) is ever made per
\* Resource instance, and every data accessor yields the same outcome before
\* and after an explicit retrieve() on a Resource already retrieved.
C1_RetrievedAtMostOnce ==
    [][\A r \in Resources :
         /\ netCount'[r] <= 1
         /\ (Called("retrieve", r) /\ retrieved(res[r]))
              => \A f \in Fields : ReadField(res'[r], f) = ReadField(res[r], f)]_vars

\* C2: retrieve() on a Resource whose URL is a key of its cache issues no
\* request, leaves the cache unchanged and adopts the cached response: content,
\* final_url and status_code afterwards are those of the cached entry.
C2_CacheHitAdopts ==
    [][\A r \in Resources :
         (Called("retrieve", r) /\ res[r].hasCache /\ cache[res[r].url] # <<>>)
           => /\ last'.net = "none"
              /\ netCount'[r] = netCount[r]
              /\ cache' = cache
              /\ last'.result = Return("None")
              /\ \A f \in Fields :
                   Getter(res'[r], cache', <<>>, f).result
                     = Return(cache[res[r].url][1][f])]_vars

\* C2's case: a Resource that never issued a request holds the response of a
\* pre-populated cache after retrieve().
C2_Witness ==
    \E r \in Resources :
        /\ last.op = "retrieve" /\ last.r = r /\ last.net = "none"
        /\ netCount[r] = 0
        /\ res[r].response = cache[res[r].url]
        /\ res[r].response # <<>>

\* C3: retrieve() on a cache miss issues a request; a fault marks the attempt
\* failed and leaves the cache unchanged; a completed call, whatever its
\* status, stores the response under the URL. Entries stay, and retrieve() on
\* a Resource whose URL is in the cache issues no request.
C3_CacheWrittenByOutcome ==
    [][/\ \A r \in Resources :
            (Called("retrieve", r) /\ res[r].hasCache /\ cache[res[r].url] = <<>>)
              => /\ last'.net # "none"
                 /\ last'.net = "fault"
                      => res'[r].success = "false" /\ cache' = cache
                 /\ last'.net = "completed"
                      => /\ res'[r].response # <<>>
                         /\ cache' = [cache EXCEPT ![res[r].url] = res'[r].response]
       /\ \A u \in Urls : cache[u] # <<>> => cache'[u] = cache[u]
       /\ \A r \in Resources :
            (Called("retrieve", r) /\ res[r].hasCache /\ cache[res[r].url] # <<>>)
              => last'.net = "none" /\ netCount' = netCount]_vars

\* C3's case: a response with a status other than 200, fetched by one
\* Resource, is adopted by another Resource of the same URL without a request.
C3_Witness ==
    \E r1, r2 \in Resources :
        /\ r1 # r2 /\ res[r1].url = res[r2].url
        /\ netCount[r1] = 1 /\ netCount[r2] = 0
        /\ last.op = "retrieve" /\ last.r = r2 /\ last.net = "none"
        /\ res[r2].response = cache[res[r2].url]
        /\ res[r2].response # <<>>
        /\ res[r2].response[1].status_code # 200

\* C4: on a retrieved Resource, evaluating success never raises, and success
\* is true exactly when the attempt succeeded and the status code is 200.
C4_SuccessIffOk200 ==
    \A r \in Resources :
        retrieved(res[r]) =>
            LET s == success(res[r], cache, <<>>).result IN
            /\ s.kind = "return"
            /\ s.val[1] = (/\ res[r].success = "true"
                           /\ res[r].response[1].status_code = 200)

\* C5: a network fault never leaves retrieve() as an exception: retrieve()
\* returns, the Resource is retrieved and its success is false.
C5_FaultContained ==
    \A r \in Resources :
        (last.op = "retrieve" /\ last.r = r /\ last.net = "fault")
          => /\ last.result = Return("None")
             /\ retrieved(res[r])
             /\ success(res[r], cache, <<>>).result = Return(FALSE)
             /\ success(res[r], cache, <<>>).net = "none"

\* C5's case: retrieve() of a Resource without a cache met a network fault.
C5_Witness ==
    /\ last.op = "retrieve" /\ last.net = "fault"
    /\ ~res[last.r].hasCache
    /\ res[last.r].response = <<>>

\* C6: for a Resource constructed without a cache, a retrieve() whose network
\* call completes returns normally, and success, content, final_url and
\* status_code then report the fetched response.
C6_CacheOptional ==
    \A r \in Resources :
        (last.op = "retrieve" /\ last.r = r /\ last.net = "completed" /\ ~res[r].hasCache)
          => /\ last.result = Return("None")
             /\ res[r].response # <<>>
             /\ success(res[r], cache, <<>>).result
                  = Return(res[r].response[1].status_code = 200)
             /\ \A f \in Fields :
                  Getter(res[r], cache, <<>>, f).result = Return(res[r].response[1][f])

\* C7: content, final_url and status_code on a Resource not yet retrieved
\* retrieve it first; the call raises RetrievalFailure exactly when the
\* attempt met a network fault and otherwise returns the value of the stored
\* response, whatever its status.
C7_AccessorsRetrieveFirst ==
    [][\A r \in Resources : \A op \in GetterOps :
         (Called(op, r) /\ ~retrieved(res[r]))
           => /\ retrieved(res'[r])
              /\ (last'.result = Raise("RetrievalFailure")) = (last'.net = "fault")
              /\ last'.net # "fault"
                   => /\ res'[r].response # <<>>
                      /\ last'.result = Return(res'[r].response[1][OpField(op)])]_vars

\* C8: once a retrieval attempt of a Resource has ended in a network fault,
\* content, final_url, status_code, success, serialize and persist issue no
\* request and leave the Resource as it is: the getters raise
\* RetrievalFailure, success is false, serialize reports the failure and
\* persist writes nothing.
C8_FailureIsTerminal ==
    [][\A r \in Resources :
         (res[r].success = "false" /\ last'.r = r /\ last'.op # "retrieve")
           => /\ last'.net = "none"
              /\ netCount' = netCount
              /\ res' = res /\ cache' = cache /\ files' = files
              /\ last'.op \in GetterOps => last'.result = Raise("RetrievalFailure")
              /\ last'.op = "success" => last'.result = Return(FALSE)
              /\ last'.op = "serialize"
                   => last'.result = Return([url |-> res[r].url,
                                             webroot_path |-> res[r].url.path,
                                             success |-> FALSE])
              /\ last'.op = "persist" => last'.result = Return("skipped")]_vars

\* C8's case: an accessor called on a Resource whose attempt had failed.
C8_Witness ==
    \E r \in Resources :
        /\ res[r].success = "false" /\ netCount[r] = 1
        /\ last.r = r /\ last.op = "content"
        /\ last.net = "none"

\* -------------------------------------------------------- Guess claims
\* C9: no Asset is a member of both positive_matches and negative_matches.
C9_EvidenceDisjoint ==
    heap[guess.positive_matches] \cap heap[guess.negative_matches] = {}

\* C10 as stated: every add of an Asset of weight w to the positive set, also
\* of one already in it, increases strength by POSITIVE_MATCH_WEIGHT * w and
\* leaves negative_strength unchanged. Stated here of a Guess whose two sets
\* are distinct objects.
C10_EveryAddIncreases ==
    [][\A a \in Assets :
         (/\ glast'.op = "add_positive" /\ glast'.asset = a
          /\ guess.positive_matches # guess.negative_matches)
           => /\ strength(heap', guess') = strength(heap, guess)
                    + settings.POSITIVE_MATCH_WEIGHT * idf_weight(a)
              /\ negative_strength(heap', guess') = negative_strength(heap, guess)]_vars

\* C10 amended: strength is POSITIVE_MATCH_WEIGHT * positive_strength +
\* NEGATIVE_MATCH_WEIGHT * negative_strength, each the sum of the weights of
\* the set's members. Adding an Asset of weight w that is not yet in the
\* positive set increases strength by POSITIVE_MATCH_WEIGHT * w and leaves
\* negative_strength unchanged when the two sets are distinct objects (by
\* (POSITIVE_MATCH_WEIGHT + NEGATIVE_MATCH_WEIGHT) * w when both attributes
\* are the same set object); adding one already in it changes nothing.
C10_NewAddIncreases ==
    [][\A a \in Assets :
         (glast'.op = "add_positive" /\ glast'.asset = a)
           => LET before  == strength(heap, guess)
                  after   == strength(heap', guess')
                  w       == idf_weight(a)
                  isNew   == a \notin heap[guess.positive_matches]
                  aliased == guess.positive_matches = guess.negative_matches
              IN  /\ after = settings.POSITIVE_MATCH_WEIGHT * positive_strength(heap', guess')
                               + settings.NEGATIVE_MATCH_WEIGHT * negative_strength(heap', guess')
                  /\ positive_strength(heap', guess')
                       = positive_strength(heap, guess) + (IF isNew THEN w ELSE 0)
                  /\ (isNew /\ ~aliased)
                       => /\ after = before + settings.POSITIVE_MATCH_WEIGHT * w
                          /\ negative_strength(heap', guess') = negative_strength(heap, guess)
                  /\ (isNew /\ aliased)
                       => after = before + (settings.POSITIVE_MATCH_WEIGHT
                                              + settings.NEGATIVE_MATCH_WEIGHT) * w
                  /\ ~isNew => after = before]_vars

\* C10's case: an Asset with a weight was added to a positive set that did
\* not hold it, next to a negative set with evidence of its own.
C10_Witness ==
    /\ glast.op = "add_positive" /\ idf_weight(glast.asset) > 0
    /\ guess.positive_matches = "ownPos"
    /\ heap["ownPos"] = {glast.asset}
    /\ guess.negative_matches = "N"
    /\ negative_strength(heap, guess) > 0

\* C18: whenever serialize() or debug_serialize() returns, the sizes of the
\* two sets in serialize()'s dict, the two counts in debug_serialize()'s dict
\* and the sizes of the Guess's own two sets are the same.
C18_CountsAgree ==
    LET live_positive == Cardinality(heap[guess.positive_matches])
        live_negative == Cardinality(heap[guess.negative_matches])
        Sizes(dict) == <<Cardinality(heap[dict.positive_matches]),
                         Cardinality(heap[dict.negative_matches])>>
        Counts(dict) == <<dict.positive_matches, dict.negative_matches>>
    IN /\ glast.op = "serialize"
            => /\ Sizes(glast.result[1]) = <<live_positive, live_negative>>
               /\ Sizes(glast.result[1]) = Counts(Guess_debug_serialize(heap, guess))
       /\ glast.op = "debug_serialize"
            => /\ Counts(glast.result[1]) = <<live_positive, live_negative>>
               /\ Counts(glast.result[1]) = Sizes(Guess_serialize(heap, guess))

\* C18's case: debug_serialize() on a Guess that was given evidence of both
\* kinds, more of one than of the other.
C18_Witness ==
    /\ glast.op = "debug_serialize"
    /\ glast.result[1].positive_matches > glast.result[1].negative_matches
    /\ glast.result[1].negative_matches > 0
    /\ guess.positive_matches = "ownPos"

\* C11: the comparison operators of Guess form a strict weak ordering decided
\* by strength alone: exactly one of a < b, a == b, a > b holds; <= and >=
\* are their unions with ==; < is irreflexive and transitive; == is
\* transitive; and a == b holds exactly when the strengths are equal.
C11_StrictWeakOrder ==
    ordering.cmp # <<>> =>
        LET a == ordering.a[1]
            b == ordering.b[1]
            c == ordering.cmp[1]
        IN  /\ (c.lt /\ ~c.eq /\ ~c.gt) \/ (~c.lt /\ c.eq /\ ~c.gt) \/ (~c.lt /\ ~c.eq /\ c.gt)
            /\ c.le = (c.lt \/ c.eq)
            /\ c.ge = (c.gt \/ c.eq)
            /\ c.eq = (StrengthOf(a) = StrengthOf(b))
            /\ c.lt = (StrengthOf(a) < StrengthOf(b))
            /\ ~Guess_lt(a, a) /\ ~Guess_lt(b, b)
            /\ c.lt = Guess_gt(b, a)
            /\ \A z \in GuessObjects :
                 /\ (c.lt /\ Guess_lt(b, z)) => Guess_lt(a, z)
                 /\ (c.eq /\ Guess_eq(b, z)) => Guess_eq(a, z)

\* C11's case: two Guesses of different versions and different evidence sets
\* have equal strength and compare as equal.
C11_Witness ==
    /\ ordering.cmp # <<>>
    /\ ordering.cmp[1].eq
    /\ ordering.a[1].guess.software_version # ordering.b[1].guess.software_version
    /\ ordering.a[1].heap["P"] # ordering.b[1].heap["P"]
    /\ StrengthOf(ordering.a[1]) # 0

\* C19: with every Resource sharing one dict, in every step: no key leaves
\* the cache and no entry is replaced; a request completes only for a URL that
\* has no entry, and leaves one, so that at most one request per URL ever
\* completes; and every Resource that holds a response holds the entry of its
\* URL.
C19_SharedCacheStable ==
    [][/\ \A u \in Urls : cache[u] # <<>> => cache'[u] = cache[u]
       /\ \A r \in Resources :
            (last'.r = r /\ last'.net = "completed")
              => /\ cache[res[r].url] = <<>>
                 /\ cache'[res[r].url] # <<>>
                 /\ \A q \in Resources :
                      res[q].url = res[r].url => res[q].response = <<>>
       /\ \A r \in Resources :
            res'[r].response # <<>> => res'[r].response = cache'[res'[r].url]]_vars

\* C19's case: two Resources of one URL each issued one request, one met a
\* fault and the other completed, and both hold the cached response.
C19_Witness ==
    \E r1, r2 \in Resources :
        /\ r1 # r2 /\ res[r1].url = res[r2].url
        /\ netCount[r1] = 1 /\ netCount[r2] = 1
        /\ last.op = "retrieve" /\ last.r = r1 /\ last.net = "none"
        /\ res[r1].response # <<>>
        /\ res[r1].response = cache[res[r1].url]
        /\ res[r2].response = cache[res[r2].url]

\* C15: persist on a Resource that was never retrieved, whose attempt
\* failed, or whose response has a status other than 200 returns without an
\* exception, writes no file, issues no request and leaves the Resource and
\* the cache as they are.
C15_PersistSkips ==
    [][\A r \in Resources :
         (/\ Called("persist", r)
          /\ \/ ~retrieved(res[r])
             \/ res[r].success = "false"
             \/ res[r].response # <<>> /\ res[r].response[1].status_code # 200)
           => /\ last'.result = Return("skipped")
              /\ files' = files
              /\ last'.net = "none" /\ netCount' = netCount
              /\ res' = res /\ cache' = cache]_vars

\* C17 as stated: persisting a successfully retrieved Resource whose URL
\* has an empty path writes the response's content to the file
\* base_path/<scheme>_<host>/index.
C17_EmptyPathIndex ==
    [][\A r \in Resources :
         (/\ Called("persist", r) /\ last'.result = Return("written")
          /\ PathText(res[r].url.path) = <<>>)
           => [path  |-> [base |-> BasePath,
                          dir  |-> <<res[r].url.scheme, "_", res[r].url.netloc>>,
                          name |-> <<"i", "n", "d", "e", "x">>],
               bytes |-> res[r].response[1].content] \in files']_vars

\* C17 amended: persisting a successfully retrieved Resource whose URL has an
\* empty path writes the response's content to the file
\* base_path/<scheme>_<host>/__index__, and to no other file.
C17_EmptyPathPlaceholder ==
    [][\A r \in Resources :
         (/\ Called("persist", r) /\ last'.result = Return("written")
          /\ PathText(res[r].url.path) = <<>>)
           => LET written ==
                    [path  |-> [base |-> BasePath,
                                dir  |-> <<res[r].url.scheme, "_", res[r].url.netloc>>,
                                name |-> <<"_", "_", "i", "n", "d", "e", "x", "_", "_">>],
                     bytes |-> res[r].response[1].content]
              IN /\ written \in files'
                 /\ files' \ {written} \subseteq files]_vars

\* C17's case: a Resource of a URL with an empty path, retrieved with status
\* 200, was persisted and its file exists.
C17_Witness ==
    /\ last.op = "persist" /\ last.result = Return("written")
    /\ res[last.r].url.path = ""
    /\ res[last.r].response[1].status_code = 200
    /\ \E f \in files : f.bytes = res[last.r].response[1].content

\* C16: the file name persist derives is the derived path name itself when
\* that has at most 200 characters (200 included); a longer one becomes its
\* first 50 characters, "...", the hash of the whole name, "..." and its last
\* 50 characters; so no file name is longer than 200 + the length of a hash.
C16_NameBounded ==
    naming.out # <<>> =>
        LET cleaned == IF naming.path = <<>> THEN <<>>
                       ELSE clean_path_name(Tail(naming.path))
            derived == IF cleaned = <<>>
                       THEN <<"_", "_", "i", "n", "d", "e", "x", "_", "_">> ELSE cleaned
            n       == Len(derived)
            out     == naming.out[1]
            dots    == <<".", ".", ".">>
        IN /\ n <= 200 => out = derived
           /\ n > 200 =>
                /\ Len(out) = 50 + 3 + HashLength + 3 + 50
                /\ SubSeq(out, 1, 50) = SubSeq(derived, 1, 50)
                /\ SubSeq(out, 51, 53) = dots
                /\ SubSeq(out, 54, 53 + HashLength) = calculate_checksum_hex(derived)
                /\ SubSeq(out, 54 + HashLength, 56 + HashLength) = dots
                /\ SubSeq(out, 57 + HashLength, 106 + HashLength)
                     = SubSeq(derived, n - 49, n)
           /\ Len(out) <= 200 + HashLength

\* C16's case: a derived name of 201 characters was compressed.
C16_Witness ==
    /\ naming.out # <<>>
    /\ naming.path # <<>>
    /\ Len(clean_path_name(Tail(naming.path))) = 201
    /\ Len(naming.out[1]) = 106 + HashLength
    /\ SubSeq(naming.out[1], 1, 50) # SubSeq(naming.out[1], 57 + HashLength, 106 + HashLength)

\* ---------------------------------------------------- Extractor claims
\* C20: extract_information on a Resource whose attempt failed, before the
\* call or in it, raises RetrievalFailure without a query to the store or to
\* the signatures; on a Resource whose response has a status other than 200
\* it returns, after running both strategies on that response: every
\* signature was tried and the result is the union of the two strategies.
C20_ExtractionNeedsRetrieval ==
    [][\A r \in Resources :
         Called("extract_information", r)
           => /\ res'[r].success = "false"
                   => /\ last'.result = Raise("RetrievalFailure")
                      /\ extraction'.queries = {}
              /\ (res'[r].response # <<>> /\ res'[r].response[1].status_code # 200)
                   => LET response == res'[r].response[1]
                          b        == extraction.backend
                      IN /\ last'.result =
                              Return(extract_generator_tag(Parse(response.content), b).result
                                       \cup extract_wappalyzer_information(
                                              response, extraction.apps, b).result)
                         /\ \A app \in extraction.apps :
                              [to |-> "wappalyzer", fn |-> "matches",
                               arg |-> app.software_package] \in extraction'.queries]_vars

\* The content of the only generator tag of the document given to the
\* generator-tag strategy splits into at least one token.
HasTokens ==
    LET tags == find_all_generator(extraction.parsed) IN
    /\ Len(tags) = 1
    /\ tags[1].content # <<>>
    /\ split(tags[1].content[1]) # <<>>

\* C12: for a document with exactly one generator tag whose content has a
\* first token, the result of the generator-tag strategy is the union, over
\* the packages the first token names, of each package's contribution: of the
\* versions the store returns for the package, those whose name contains the
\* second token (letter case ignored, trimmed) when there is a second token
\* and at least one such version, and all of them otherwise.
C12_NarrowingWithFallback ==
    (last.op = "_extract_generator_tag" /\ HasTokens) =>
        LET tokens == split(find_all_generator(extraction.parsed)[1].content[1])
            b      == extraction.backend
            Named  == { p \in PackageNames : lower(p) = lower(tokens[1]) }
            Known(p) == retrieve_versions(b, p, TRUE)
            Hits(p)  == { v \in Known(p) :
                            /\ Len(tokens) > 1
                            /\ Contains(lower(strip(v.name)), lower(tokens[2])) }
            Contribution(p) == IF Hits(p) # {} THEN Hits(p) ELSE Known(p)
        IN last.result = Return(UNION { Contribution(p) : p \in Named })

\* C12's case: one call narrows package W to version 5.4, leaving out its
\* indexed version 5.5, and falls back to the only version 5.5 of package w.
C12_Witness ==
    /\ last.op = "_extract_generator_tag"
    /\ [package |-> <<"W">>, name |-> <<"5", ".", "5">>] \in extraction.backend.indexed
    /\ [package |-> <<"W">>, name |-> <<"5", ".", "5">>] \notin last.result.val[1]
    /\ [package |-> <<"W">>, name |-> <<"5", ".", "4">>] \in last.result.val[1]
    /\ [package |-> <<"w">>, name |-> <<"5", ".", "5">>] \in last.result.val[1]

\* C13: the generator-tag strategy returns the empty set, without an
\* exception and without a query to the store, for a document with no
\* generator tag or with more than one, whatever their content; and it
\* returns the empty set when the only tag has no content attribute, or an
\* empty one, or one of whitespace alone.
C13_AmbiguousTagRejected ==
    last.op = "_extract_generator_tag" =>
        LET tags  == find_all_generator(extraction.parsed)
            blank == /\ Len(tags) = 1
                     /\ \/ tags[1].content = <<>>
                        \/ \A i \in 1..Len(tags[1].content[1]) :
                              tags[1].content[1][i] \in Whitespace
        IN /\ Len(tags) # 1 => last.result = Return({}) /\ extraction.queries = {}
           /\ blank => last.result = Return({})

\* C13's case: two generator tags, each naming a package and a version the
\* store knows, and nothing extracted.
C13_Witness ==
    /\ last.op = "_extract_generator_tag"
    /\ Len(find_all_generator(extraction.parsed)) = 2
    /\ \E v \in extraction.backend.indexed :
         /\ v.package = split(find_all_generator(extraction.parsed)[1].content[1])[1]
         /\ Contains(find_all_generator(extraction.parsed)[2].content[1], v.name)
    /\ last.result = Return({})
    /\ extraction.queries = {}

\* C14: extract_information on a Resource that holds a fetched response
\* returns the union of the result of the generator-tag strategy on the
\* response's document and of the indexed versions of the package of every
\* signature that matches the response.
C14_UnionOfStrategies ==
    \A r \in Resources :
        (last.op = "extract_information" /\ last.r = r /\ res[r].success = "true") =>
            LET response == res[r].response[1]
                b        == extraction.backend
                tagged   == extract_generator_tag(Parse(response.content), b).result
                signed   == { v \in b.indexed :
                                \E app \in extraction.apps :
                                    /\ matches(app, response)
                                    /\ v.package = app.software_package }
            IN last.result = Return(tagged \cup signed)

\* C14's case: version 5.5 of W, which the narrowing to 5.4 removed, is in
\* the result of a fetched Resource because a signature of W matches.
C14_Witness ==
    /\ last.op = "extract_information"
    /\ res[last.r].success = "true"
    /\ res[last.r].response[1].status_code = 200
    /\ LET w55 == [package |-> <<"W">>, name |-> <<"5", ".", "5">>]
           tagged == extract_generator_tag(Parse(res[last.r].response[1].content),
                                           extraction.backend).result
       IN /\ tagged # {}
          /\ w55 \notin tagged
          /\ w55 \in last.result.val[1]

====
